---- MODULE Spec2Model ----
(***************************************************************************)
(* A model of the query / aggregation / caching core of the telemetry API: *)
(* backend/api/services.py (list_sensor_readings, get_facility_details,    *)
(* get_dashboard_summary) and backend/api/routes.py (the dashboard ETag    *)
(* and the If-None-Match evaluation).                                      *)
(*                                                                         *)
(* Conventions.  An optional Python argument is a sequence: None is <<>>   *)
(* and a supplied value v is <<v>>.  A timestamp is an integer.  A Python  *)
(* str that the code inspects character by character (the If-None-Match   *)
(* header, an ETag) is a sequence of one-character strings, except that a  *)
(* hex digest is one opaque element of it.  AVG is an exact fraction.      *)
(***************************************************************************)
EXTENDS Integers, Sequences, FiniteSets, TLC

VARIABLES
    readings,   \* the sensor_readings table: a set of rows
    op,         \* the operation that ran last ("init" before any)
    req,        \* its arguments
    resp,       \* its outcome: status, detail, body, headers, queries executed
    pages       \* the pages of the scan in progress: <<[req, rows], ...>>

vars == <<readings, op, req, resp, pages>>

-----------------------------------------------------------------------------
(* Bounds of the model.                                                    *)

MaxReadings == 2    \* rows in sensor_readings (single-call specifications)
MaxScanReadings == 3 \* rows in sensor_readings (paged-scan specifications)
MaxLimit == 2       \* the largest LIMIT a request asks for
MaxPages == 3       \* calls in one scan
MaxDashReadings == 2 \* rows ingested in the dashboard specifications
MaxMetrics == 1      \* metric cards of a summary given to the ETag
MaxEntries == 2      \* entries of an If-None-Match list

-----------------------------------------------------------------------------
(* Python values.                                                          *)

None == <<>>
Some(v) == <<v>>
Opt(S) == {None} \cup {Some(v) : v \in S}

-----------------------------------------------------------------------------
(* The store.  facilities, assets and metrics are dimension tables; every  *)
(* reading references an asset and a metric, and carries its asset's       *)
(* facility_id.                                                            *)

Facilities ==
    { [id |-> 1, name |-> "Plant North"],
      [id |-> 2, name |-> "Plant South"] }

Assets ==
    { [id |-> 1, facility_id |-> 1, name |-> "Pump 1"],
      [id |-> 2, facility_id |-> 1, name |-> "Boiler 1"],
      [id |-> 3, facility_id |-> 2, name |-> "Chiller 1"] }

Metrics ==
    { [id |-> 1, name |-> "power_kw", unit |-> "kW"],
      [id |-> 2, name |-> "temperature_c", unit |-> "C"],
      [id |-> 3, name |-> "flow_l_min", unit |-> "L/min"] }

\* A facility id that no row of facilities carries.
UnknownFacility == Cardinality(Facilities) + 1

Timestamps == {10, 15, 20}

\* The id the store gives the next reading: ids grow with every insertion.
NextReadingId(store) == Cardinality(store) + 1

-----------------------------------------------------------------------------
(* Outcomes.                                                               *)

NoHeaders == [cache_control |-> "", etag |-> <<>>]

HTTPException(status_code, detail, queries) ==
    [status |-> status_code, detail |-> detail, body |-> <<>>,
     headers |-> NoHeaders, queries |-> queries]

Ok(body, queries) ==
    [status |-> 200, detail |-> "", body |-> body,
     headers |-> NoHeaders, queries |-> queries]

-----------------------------------------------------------------------------
(* _get_facility_row: SELECT ... FROM facilities WHERE id = %s; fetchone.  *)
(* The set of matching rows: empty stands for None.                        *)

_get_facility_row(facility_id) == {f \in Facilities : f.id = facility_id}

-----------------------------------------------------------------------------
(* list_sensor_readings.                                                   *)

\* Python truthiness of an optional str: None and "" are falsy.
StrTruthy(o) == o # None /\ o[1] # ""

\* Python truthiness of an optional datetime: only None is falsy.
DatetimeTruthy(o) == o # None

\* The (ts, id) ordering of two rows.
KeyLess(x, y) == x.ts < y.ts \/ (x.ts = y.ts /\ x.id < y.id)

\* "(sr.ts > %s OR (sr.ts = %s AND sr.id > %s))"
CursorClauseTsOnly(sr, after_ts, after_id) == sr.ts > after_ts
CursorClauseInclusive(sr, after_ts, after_id) ==
    sr.ts > after_ts \/ (sr.ts = after_ts /\ sr.id >= after_id)
CursorClause(sr, after_ts, after_id) ==
    sr.ts > after_ts \/ (sr.ts = after_ts /\ sr.id > after_id)

\* The WHERE clause: one conjunct per filter the code appends.
WhereClauseOpenEnd(sr, m, r) ==
    /\ r.facility_id # None => sr.facility_id = r.facility_id[1]
    /\ r.asset_id # None => sr.asset_id = r.asset_id[1]
    /\ StrTruthy(r.metric_name) => m.name = r.metric_name[1]
    /\ r.start # None => sr.ts >= r.start[1]
    /\ r.end # None => sr.ts < r.end[1]
    /\ (r.after_ts # None /\ r.after_id # None)
          => CursorClause(sr, r.after_ts[1], r.after_id[1])
WhereClause(sr, m, r) ==
    /\ r.facility_id # None => sr.facility_id = r.facility_id[1]
    /\ r.asset_id # None => sr.asset_id = r.asset_id[1]
    /\ StrTruthy(r.metric_name) => m.name = r.metric_name[1]
    /\ r.start # None => sr.ts >= r.start[1]
    /\ r.end # None => sr.ts <= r.end[1]
    /\ (r.after_ts # None /\ r.after_id # None)
          => CursorClause(sr, r.after_ts[1], r.after_id[1])

\* The SELECT list over sensor_readings JOIN assets JOIN metrics.
SensorReading(sr, a, m) ==
    [id |-> sr.id, facility_id |-> sr.facility_id, asset_id |-> sr.asset_id,
     asset_name |-> a.name, metric_id |-> sr.metric_id, metric_name |-> m.name,
     unit |-> m.unit, ts |-> sr.ts, value |-> sr.value]

\* JOIN assets a ON a.id = sr.asset_id JOIN metrics m ON m.id = sr.metric_id
AssetsOf(sr) == {a \in Assets : a.id = sr.asset_id}
MetricsOf(sr) == {m \in Metrics : m.id = sr.metric_id}

SelectReadings(store, r) ==
    UNION { { SensorReading(sr, a, m) :
                a \in AssetsOf(sr), m \in {x \in MetricsOf(sr) : WhereClause(sr, x, r)} } :
            sr \in store }

\* order_clause: ascending with a cursor, descending without.
OrderClause(r) == IF r.after_ts = None THEN "DESC" ELSE "ASC"

\* ORDER BY sr.ts <dir>, sr.id <dir>: whether x comes before y.
PrecedesTsThenIdAsc(x, y, dir) ==
    IF dir = "ASC" THEN KeyLess(x, y)
    ELSE x.ts > y.ts \/ (x.ts = y.ts /\ x.id < y.id)
Precedes(x, y, dir) == IF dir = "ASC" THEN KeyLess(x, y) ELSE KeyLess(y, x)

RECURSIVE OrderBy(_, _)
OrderBy(S, dir) ==
    IF S = {} THEN <<>>
    ELSE LET first == CHOOSE x \in S : \A y \in S \ {x} : Precedes(x, y, dir)
         IN  <<first>> \o OrderBy(S \ {first}, dir)

\* LIMIT %s
Limit(rows, n) == SubSeq(rows, 1, IF n < Len(rows) THEN n ELSE Len(rows))

\* The two argument checks, in the order the code makes them.
InvalidRange(r) ==
    DatetimeTruthy(r.start) /\ DatetimeTruthy(r.end) /\ r.start[1] > r.end[1]
InvalidCursorOneSided(r) == r.after_ts = None /\ r.after_id # None
InvalidCursor(r) == (r.after_ts = None) # (r.after_id = None)

RangeDetail == "start must be less than or equal to end"
CursorDetail == "after_ts and after_id must be provided together"

list_sensor_readings(store, r) ==
    IF InvalidRange(r) THEN HTTPException(400, RangeDetail, 0)
    ELSE IF InvalidCursor(r) THEN HTTPException(400, CursorDetail, 0)
    ELSE Ok(Limit(OrderBy(SelectReadings(store, r), OrderClause(r)), r.limit), 1)

-----------------------------------------------------------------------------
(* get_facility_details.                                                   *)

Asset(row) == [id |-> row.id, facility_id |-> row.facility_id, name |-> row.name]

RECURSIVE OrderById(_)
OrderById(S) ==
    IF S = {} THEN <<>>
    ELSE LET first == CHOOSE x \in S : \A y \in S : x.id <= y.id
         IN  <<first>> \o OrderById(S \ {first})

\* HTTPException(status_code=404, detail=f"Facility {facility_id} not found")
FacilityNotFound(facility_id) ==
    HTTPException(404, "Facility " \o ToString(facility_id) \o " not found", 1)

get_facility_details(facility_id) ==
    LET facility_row == _get_facility_row(facility_id) IN
    IF facility_row = {} THEN FacilityNotFound(facility_id)
    ELSE LET f == CHOOSE x \in facility_row : TRUE
             asset_rows == OrderById({a \in Assets : a.facility_id = facility_id})
         IN  Ok([id |-> f.id, name |-> f.name,
                 assets |-> [i \in 1..Len(asset_rows) |-> Asset(asset_rows[i])]], 2)

-----------------------------------------------------------------------------
(* get_dashboard_summary.                                                  *)

\* Exact numbers: num / den, reduced, den > 0.
RECURSIVE Gcd(_, _)
Gcd(a, b) == IF b = 0 THEN a ELSE Gcd(b, a % b)
Abs(n) == IF n < 0 THEN -n ELSE n
Frac(n, d) ==
    LET g == Gcd(Abs(n), d) IN [num |-> n \div g, den |-> d \div g]
Num(n) == Frac(n, 1)

\* _get_default_metric_aggregation
DefaultAggregationPowerOnly(metric_name) ==
    IF metric_name \in {"power_kw"} THEN "sum" ELSE "avg"
_get_default_metric_aggregation(metric_name) ==
    IF metric_name \in {"power_kw", "flow_l_min"} THEN "sum" ELSE "avg"

\* ORDER BY sr.asset_id, sr.metric_id, sr.ts DESC, sr.id DESC
LatestBeforeOldestFirst(x, y) ==
    \/ x.asset_id < y.asset_id
    \/ (x.asset_id = y.asset_id /\ x.metric_id < y.metric_id)
    \/ (x.asset_id = y.asset_id /\ x.metric_id = y.metric_id /\ KeyLess(x, y))
LatestBefore(x, y) ==
    \/ x.asset_id < y.asset_id
    \/ (x.asset_id = y.asset_id /\ x.metric_id < y.metric_id)
    \/ (x.asset_id = y.asset_id /\ x.metric_id = y.metric_id /\ KeyLess(y, x))

RECURSIVE OrderLatest(_)
OrderLatest(S) ==
    IF S = {} THEN <<>>
    ELSE LET first == CHOOSE x \in S : \A y \in S \ {x} : LatestBefore(x, y)
         IN  <<first>> \o OrderLatest(S \ {first})

\* SELECT DISTINCT ON (sr.asset_id, sr.metric_id) ... WHERE sr.facility_id = %s:
\* the first row of every (asset_id, metric_id) run of the ordered rows.
latest_per_asset_metric(store, facility_id) ==
    LET ordered == OrderLatest({sr \in store : sr.facility_id = facility_id})
    IN  { ordered[i] : i \in { k \in 1..Len(ordered) :
              \/ k = 1
              \/ ordered[k].asset_id # ordered[k - 1].asset_id
              \/ ordered[k].metric_id # ordered[k - 1].metric_id } }

RECURSIVE SumValues(_)
SumValues(S) ==
    IF S = {} THEN 0
    ELSE LET x == CHOOSE y \in S : TRUE IN x.value + SumValues(S \ {x})

MinValue(S) == CHOOSE v \in {x.value : x \in S} : \A x \in S : v <= x.value
MaxValue(S) == CHOOSE v \in {x.value : x \in S} : \A x \in S : v >= x.value
MaxTs(S) == CHOOSE t \in {x.ts : x \in S} : \A x \in S : t >= x.ts

\* The metric names in ascending string order (ORDER BY m.name).
NameCollation == <<"flow_l_min", "power_kw", "temperature_c">>
NameRank(name) == CHOOSE i \in 1..Len(NameCollation) : NameCollation[i] = name

RECURSIVE OrderByName(_)
OrderByName(S) ==
    IF S = {} THEN <<>>
    ELSE LET first == CHOOSE x \in S :
                          \A y \in S : NameRank(x.metric_name) <= NameRank(y.metric_name)
         IN  <<first>> \o OrderByName(S \ {first})

\* FROM latest_per_asset_metric l JOIN metrics m ... GROUP BY m.name, m.unit
\* ORDER BY m.name
SummaryRows(store, facility_id) ==
    LET l == latest_per_asset_metric(store, facility_id)
        joined == {p \in l \X Metrics : p[2].id = p[1].metric_id}
        groups == {<<p[2].name, p[2].unit>> : p \in joined}
        Rows(g) == {p[1] : p \in {q \in joined : <<q[2].name, q[2].unit>> = g}}
    IN  OrderByName(
            { [metric_name |-> g[1], unit |-> g[2],
               latest_ts |-> MaxTs(Rows(g)),
               contributing_assets |-> Cardinality(Rows(g)),
               sum_value |-> Num(SumValues(Rows(g))),
               avg_value |-> Frac(SumValues(Rows(g)), Cardinality(Rows(g))),
               min_value |-> Num(MinValue(Rows(g))),
               max_value |-> Num(MaxValue(Rows(g)))] : g \in groups })

\* A dict, in insertion order: a sequence of <<key, value>>.
DictGet(d, key) == d[CHOOSE i \in 1..Len(d) : d[i][1] = key][2]
DictKeys(d) == {d[i][1] : i \in 1..Len(d)}

DashboardMetric(row) ==
    LET default_aggregation == _get_default_metric_aggregation(row.metric_name)
        aggregation_values ==
            << <<"sum", row.sum_value>>, <<"avg", row.avg_value>>,
               <<"min", row.min_value>>, <<"max", row.max_value>> >>
    IN  [metric_name |-> row.metric_name,
         unit |-> row.unit,
         aggregation |-> default_aggregation,
         aggregation_values |-> aggregation_values,
         latest_ts |-> row.latest_ts,
         aggregated_value |-> DictGet(aggregation_values, default_aggregation),
         contributing_assets |-> row.contributing_assets]

get_dashboard_summary(store, facility_id, now) ==
    IF _get_facility_row(facility_id) = {} THEN FacilityNotFound(facility_id)
    ELSE LET rows == SummaryRows(store, facility_id) IN
         Ok([facility_id |-> facility_id,
             generated_at |-> now,
             metrics |-> [i \in 1..Len(rows) |-> DashboardMetric(rows[i])]], 2)

-----------------------------------------------------------------------------
(* The dashboard ETag (routes.py).                                         *)

\* Keys in ascending string order, as sorted() and json.dumps(sort_keys=True)
\* order them.
KeyCollation ==
    <<"aggregated_value", "aggregation", "aggregation_values", "avg",
      "contributing_assets", "facility_id", "generated_at", "latest_ts", "max",
      "metric_name",
      "metrics", "min", "sum", "unit">>
KeyRank(key) == CHOOSE i \in 1..Len(KeyCollation) : KeyCollation[i] = key

\* A dict with its items in ascending key order.
RECURSIVE SortItems(_, _)
SortItems(d, left) ==
    IF left = {} THEN <<>>
    ELSE LET i == CHOOSE k \in left : \A j \in left : KeyRank(d[k][1]) <= KeyRank(d[j][1])
         IN  <<d[i]>> \o SortItems(d, left \ {i})
SortedByKey(d) == SortItems(d, 1..Len(d))

\* datetime.isoformat()
IsoFormat(ts) == ToString(ts)

_serialize_metric_for_etag(metric) ==
    LET ordered_aggregation_values == SortedByKey(metric.aggregation_values)
    IN  << <<"aggregation", metric.aggregation>>,
           <<"aggregation_values", ordered_aggregation_values>>,
           <<"aggregated_value", metric.aggregated_value>>,
           <<"contributing_assets", metric.contributing_assets>>,
           <<"latest_ts", IsoFormat(metric.latest_ts)>>,
           <<"metric_name", metric.metric_name>>,
           <<"unit", metric.unit>> >>

RECURSIVE SerializeMetrics(_)
SerializeMetrics(metrics) ==
    IF metrics = <<>> THEN <<>>
    ELSE <<_serialize_metric_for_etag(Head(metrics))>> \o SerializeMetrics(Tail(metrics))

\* The fingerprint dict of a summary.
FingerprintWithGeneratedAt(summary) ==
    << <<"facility_id", summary.facility_id>>,
       <<"generated_at", summary.generated_at>>,
       <<"metrics", SerializeMetrics(summary.metrics)>> >>
Fingerprint(summary) ==
    << <<"facility_id", summary.facility_id>>,
       <<"metrics", SerializeMetrics(summary.metrics)>> >>

\* json.dumps(fingerprint, sort_keys=True, separators=(",", ":")): the text of
\* the fingerprint with the keys of every dict in ascending order.
RECURSIVE JsonDumpsMetricItems(_)
JsonDumpsMetricItems(d) ==
    IF d = <<>> THEN <<>>
    ELSE << IF Head(d)[1] = "aggregation_values"
            THEN <<Head(d)[1], SortedByKey(Head(d)[2])>> ELSE Head(d) >>
         \o JsonDumpsMetricItems(Tail(d))

JsonDumpsMetric(d) == SortedByKey(JsonDumpsMetricItems(d))

RECURSIVE JsonDumpsMetrics(_)
JsonDumpsMetrics(ds) ==
    IF ds = <<>> THEN <<>>
    ELSE <<JsonDumpsMetric(Head(ds))>> \o JsonDumpsMetrics(Tail(ds))

RECURSIVE JsonDumpsItems(_)
JsonDumpsItems(fp) ==
    IF fp = <<>> THEN <<>>
    ELSE << IF Head(fp)[1] = "metrics"
            THEN <<Head(fp)[1], JsonDumpsMetrics(Head(fp)[2])>> ELSE Head(fp) >>
         \o JsonDumpsItems(Tail(fp))

JsonDumps(fp) == ToString(SortedByKey(JsonDumpsItems(fp)))

\* hashlib.sha256(payload).hexdigest(): taken as injective, one opaque
\* element of the string it is part of.
Sha256Hex(payload) == payload

Quote == "\""

_build_dashboard_summary_etag(summary) ==
    LET payload == JsonDumps(Fingerprint(summary))
        digest == Sha256Hex(payload)
    IN  <<Quote, digest, Quote>>

-----------------------------------------------------------------------------
(* If-None-Match evaluation (routes.py).                                   *)

Whitespace == {" ", "\t"}

\* str.strip()
RECURSIVE LStrip(_)
LStrip(s) == IF s # <<>> /\ Head(s) \in Whitespace THEN LStrip(Tail(s)) ELSE s
RECURSIVE RStrip(_)
RStrip(s) ==
    IF s # <<>> /\ s[Len(s)] \in Whitespace THEN RStrip(SubSeq(s, 1, Len(s) - 1)) ELSE s
Strip(s) == RStrip(LStrip(s))

\* str.startswith(prefix)
StartsWith(s, prefix) == Len(s) >= Len(prefix) /\ SubSeq(s, 1, Len(prefix)) = prefix

\* str.split(sep), sep one character
RECURSIVE Split(_, _)
Split(s, sep) ==
    IF \A i \in 1..Len(s) : s[i] # sep THEN <<s>>
    ELSE LET i == CHOOSE k \in 1..Len(s) : s[k] = sep /\ \A j \in 1..(k - 1) : s[j] # sep
         IN  <<SubSeq(s, 1, i - 1)>> \o Split(SubSeq(s, i + 1, Len(s)), sep)

WeakPrefix == <<"W", "/">>

NormalizeKeepWeak(raw_value) == Strip(raw_value)
_normalize_etag_value(raw_value) ==
    LET value == Strip(raw_value) IN
    IF StartsWith(value, WeakPrefix) THEN Strip(SubSeq(value, 3, Len(value))) ELSE value

_etag_matches(if_none_match, current_etag) ==
    LET normalized_current == _normalize_etag_value(current_etag)
        split == Split(if_none_match, ",")
        candidates == [i \in 1..Len(split) |-> Strip(split[i])]
    IN  \E i \in 1..Len(candidates) :
            /\ candidates[i] # <<>>
            /\ \/ candidates[i] = <<"*">>
               \/ _normalize_etag_value(candidates[i]) = normalized_current

CacheControl == "private, must-revalidate"

read_dashboard_summary(store, facility_id, if_none_match, now) ==
    LET found == get_dashboard_summary(store, facility_id, now) IN
    IF found.status # 200 THEN found
    ELSE LET summary == found.body
             etag == _build_dashboard_summary_etag(summary)
         IN  IF /\ if_none_match # None
                /\ if_none_match[1] # <<>>
                /\ _etag_matches(if_none_match[1], etag)
             THEN [status |-> 304, detail |-> "", body |-> <<>>,
                   headers |-> [cache_control |-> CacheControl, etag |-> etag],
                   queries |-> found.queries]
             ELSE [status |-> 200, detail |-> "", body |-> summary,
                   headers |-> [cache_control |-> CacheControl, etag |-> etag],
                   queries |-> found.queries]

-----------------------------------------------------------------------------
(* Actions.                                                                *)

\* The ingestion process appends one reading; the store assigns its id.
Ingest(A, M, T, V, max) ==
    /\ Cardinality(readings) < max
    /\ \E a \in A, m \in M, t \in T, v \in V :
          readings' = readings \cup
              { [id |-> NextReadingId(readings), facility_id |-> a.facility_id,
                 asset_id |-> a.id, metric_id |-> m.id, ts |-> t, value |-> v] }
    /\ op' = "ingest"
    /\ UNCHANGED <<req, resp, pages>>

\* GET /sensor-readings
ListSensorReadings(R) ==
    \E r \in R :
        LET out == list_sensor_readings(readings, r) IN
        /\ op' = "list_sensor_readings"
        /\ req' = r
        /\ resp' = out
        /\ pages' = IF out.status = 200
                    THEN << [req |-> r, rows |-> out.body] >> ELSE <<>>
        /\ UNCHANGED readings

\* GET /facilities/{facility_id}
GetFacilityDetails(F) ==
    \E facility_id \in F :
        /\ op' = "get_facility_details"
        /\ req' = [facility_id |-> facility_id]
        /\ resp' = get_facility_details(facility_id)
        /\ pages' = <<>>
        /\ UNCHANGED readings

\* get_dashboard_summary, at a wall-clock time of Clock
GetDashboardSummary(F, Clock) ==
    \E facility_id \in F, now \in Clock :
        /\ op' = "get_dashboard_summary"
        /\ req' = [facility_id |-> facility_id]
        /\ resp' = get_dashboard_summary(readings, facility_id, now)
        /\ pages' = <<>>
        /\ UNCHANGED readings

\* The If-None-Match headers a client may send: lists of at most MaxEntries
\* entries built around the current ETag.
OtherEtag == <<Quote, "0", Quote>>

\* An entry: an optional weak prefix and a token, bare, or padded around, or
\* padded between prefix and token.
Entries(current) ==
    LET bodies == {<<>>, <<"*">>, current, OtherEtag}
        prefixes == {<<>>, WeakPrefix}
    IN  {p \o b : p \in prefixes, b \in bodies}
        \cup {<<" ">> \o p \o b \o <<" ">> : p \in prefixes, b \in bodies}
        \cup {p \o <<" ">> \o b : p \in prefixes, b \in bodies}

RECURSIVE Lists(_, _)
Lists(E, n) ==
    IF n = 1 THEN E
    ELSE LET shorter == Lists(E, n - 1)
         IN  shorter \cup {h \o <<",">> \o e : h \in shorter, e \in E}

CondHeaders(current) == Lists(Entries(current), MaxEntries)

\* GET /facilities/{facility_id}/dashboard-summary, with an If-None-Match
\* header or none
ReadDashboardSummary(F, Clock) ==
    \E facility_id \in F, now \in Clock :
        LET current == _build_dashboard_summary_etag(
                           get_dashboard_summary(readings, facility_id, now).body)
        IN  \E if_none_match \in
                  IF _get_facility_row(facility_id) = {} THEN {None}
                  ELSE {None} \cup {Some(h) : h \in CondHeaders(current)} :
                /\ op' = "read_dashboard_summary"
                /\ req' = [facility_id |-> facility_id, if_none_match |-> if_none_match,
                           now |-> now]
                /\ resp' = read_dashboard_summary(readings, facility_id, if_none_match, now)
                /\ pages' = <<>>
                /\ UNCHANGED readings

\* _build_dashboard_summary_etag on a summary of A and a summary of B
BuildEtags(A, B) ==
    \E a \in A, b \in B :
        /\ op' = "_build_dashboard_summary_etag"
        /\ req' = <<a, b>>
        /\ resp' = <<_build_dashboard_summary_etag(a), _build_dashboard_summary_etag(b)>>
        /\ UNCHANGED <<readings, pages>>

\* The client of a scan asks for the next page: the same filters and limit,
\* the cursor being the (ts, id) of the last row of the latest non-empty page
\* (its own first cursor while every page so far was empty).
NonEmptyPages(ps) == {i \in 1..Len(ps) : ps[i].rows # <<>>}

HasCursor(ps) == NonEmptyPages(ps) # {} \/ ps[1].req.after_ts # None

ScanCursor(ps) ==
    IF NonEmptyPages(ps) = {}
    THEN [ts |-> ps[1].req.after_ts[1], id |-> ps[1].req.after_id[1]]
    ELSE LET i == CHOOSE k \in NonEmptyPages(ps) :
                      \A j \in NonEmptyPages(ps) : j <= k
             last == ps[i].rows[Len(ps[i].rows)]
         IN  [ts |-> last.ts, id |-> last.id]

NextPage ==
    /\ pages # <<>>
    /\ Len(pages) < MaxPages
    /\ HasCursor(pages)
    /\ LET c == ScanCursor(pages)
           r == [pages[1].req EXCEPT !.after_ts = Some(c.ts), !.after_id = Some(c.id)]
           out == list_sensor_readings(readings, r)
       IN  /\ op' = "list_sensor_readings"
           /\ req' = r
           /\ resp' = out
           /\ pages' = Append(pages, [req |-> r, rows |-> out.body])
    /\ UNCHANGED readings

Init ==
    /\ readings = {}
    /\ op = "init"
    /\ req = <<>>
    /\ resp = <<>>
    /\ pages = <<>>

\* The store is filled before requests are served (a static store).
Populating == op \in {"init", "ingest"}

\* A handler keeps no state: serving a request after another reaches no state
\* that serving it first does not.
Idle == op \in {"init", "ingest"}

-----------------------------------------------------------------------------
(* Specification SpecFilter: one call of list_sensor_readings with every   *)
(* combination of filters, over every store of at most MaxReadings rows.   *)

StoreMetrics == {m \in Metrics : m.name \in {"power_kw", "temperature_c"}}

FilterRequests ==
    [ facility_id : {None, Some(1)},
      asset_id : {None, Some(1)},
      metric_name : {None, Some(""), Some("power_kw")},
      start : {None, Some(15)},
      end : {None, Some(15)},
      after_ts : {None},
      after_id : {None},
      limit : 1..MaxLimit ]
    \cup
    [ facility_id : {None, Some(1)},
      asset_id : {None, Some(1)},
      metric_name : {None, Some(""), Some("power_kw")},
      start : {None},
      end : {None},
      after_ts : {Some(10)},
      after_id : {Some(1)},
      limit : 1..MaxLimit ]
    \cup
    [ facility_id : {Some(1)},
      asset_id : {Some(1)},
      metric_name : {Some(""), Some("power_kw")},
      start : {Some(10), Some(15)},
      end : {Some(15)},
      after_ts : {Some(10)},
      after_id : {Some(1)},
      limit : 1..MaxLimit ]

NextFilter ==
    \/ (Populating /\ Ingest(Assets, StoreMetrics, Timestamps, {5}, MaxReadings))
    \/ (Idle /\ ListSensorReadings(FilterRequests))

SpecFilter == Init /\ [][NextFilter]_vars

-----------------------------------------------------------------------------
(* What the claims say of one call.                                        *)

Listed == op = "list_sensor_readings"
Served == Listed /\ resp.status = 200

\* Every reading of the store with its asset and metric labels.
Labelled(store) ==
    { SensorReading(sr,
                    CHOOSE a \in Assets : a.id = sr.asset_id,
                    CHOOSE m \in Metrics : m.id = sr.metric_id) : sr \in store }

AfterCursor(row, r) ==
    r.after_ts # None =>
        \/ row.ts > r.after_ts[1]
        \/ (row.ts = r.after_ts[1] /\ row.id > r.after_id[1])

\* A row satisfies every filter that is supplied (not None): exact match of
\* facility_id, asset_id and metric_name, start <= ts <= end.
SatisfiesSupplied(row, r) ==
    /\ r.facility_id # None => row.facility_id = r.facility_id[1]
    /\ r.asset_id # None => row.asset_id = r.asset_id[1]
    /\ r.metric_name # None => row.metric_name = r.metric_name[1]
    /\ r.start # None => row.ts >= r.start[1]
    /\ r.end # None => row.ts <= r.end[1]

\* The same, an empty metric_name counting as not supplied.
SatisfiesNonEmpty(row, r) ==
    /\ r.facility_id # None => row.facility_id = r.facility_id[1]
    /\ r.asset_id # None => row.asset_id = r.asset_id[1]
    /\ (r.metric_name # None /\ r.metric_name # Some(""))
          => row.metric_name = r.metric_name[1]
    /\ r.start # None => row.ts >= r.start[1]
    /\ r.end # None => row.ts <= r.end[1]

Range(seq) == {seq[i] : i \in 1..Len(seq)}

-----------------------------------------------------------------------------
(* Specification SpecValidate: the argument checks of list_sensor_readings *)
(* over every combination of start, end, after_ts and after_id.            *)

ScanAssets == {a \in Assets : a.id = 1}
ScanTimestamps == {10, 20}

ValidateRequests ==
    [ facility_id : {None},
      asset_id : {None},
      metric_name : {None, Some("power_kw")},
      start : Opt(ScanTimestamps),
      end : Opt(ScanTimestamps),
      after_ts : Opt(ScanTimestamps),
      after_id : Opt(1..MaxReadings),
      limit : 1..MaxLimit ]

NextValidate ==
    \/ (Populating /\ Ingest(ScanAssets, StoreMetrics, ScanTimestamps, {5}, MaxReadings))
    \/ (Idle /\ ListSensorReadings(ValidateRequests))

SpecValidate == Init /\ [][NextValidate]_vars

StartAfterEnd(r) == r.start # None /\ r.end # None /\ r.start[1] > r.end[1]
SplitCursor(r) ==
    \/ (r.after_ts # None /\ r.after_id = None)
    \/ (r.after_ts = None /\ r.after_id # None)

Rejected(detail) ==
    /\ resp.status = 400
    /\ resp.detail = detail
    /\ resp.queries = 0
    /\ resp.body = <<>>

\* C4 as stated: start > end always fails with InvalidRange and a split
\* cursor always fails with InvalidCursor, whatever the other arguments; no
\* query runs and no row is returned.
C4_AsStated ==
    Listed =>
        /\ StartAfterEnd(req) => Rejected(RangeDetail)
        /\ SplitCursor(req) => Rejected(CursorDetail)

\* C4 amended: start > end always fails with InvalidRange; a split cursor
\* always fails with status 400, as InvalidCursor unless start > end holds as
\* well, in which case the range check comes first; no query runs and no row
\* is returned.
C4_Validation ==
    Listed =>
        /\ StartAfterEnd(req) => Rejected(RangeDetail)
        /\ (SplitCursor(req) /\ ~StartAfterEnd(req)) => Rejected(CursorDetail)
        /\ SplitCursor(req) => (resp.status = 400 /\ resp.queries = 0 /\ resp.body = <<>>)

\* A split cursor alone is rejected over a store that holds matching rows.
C4_Witness ==
    /\ Listed
    /\ SplitCursor(req) /\ ~StartAfterEnd(req)
    /\ req.start # None /\ req.end # None
    /\ resp.detail = CursorDetail
    /\ readings # {}

-----------------------------------------------------------------------------
(* Specification SpecPage: a scan over a static store.  A first call, with *)
(* or without a cursor, then calls that each resume after the last row     *)
(* seen.                                                                   *)

PageRequests ==
    [ facility_id : {None},
      asset_id : {None},
      metric_name : {None, Some(""), Some("power_kw")},
      start : {None},
      end : {None},
      after_ts : {None},
      after_id : {None},
      limit : 1..MaxLimit ]
    \cup
    [ facility_id : {None},
      asset_id : {None},
      metric_name : {None, Some(""), Some("power_kw")},
      start : {None},
      end : {None},
      after_ts : {Some(t) : t \in ScanTimestamps},
      after_id : {Some(i) : i \in 1..2},
      limit : 1..MaxLimit ]

NextPageSpec ==
    \/ (Populating /\ Ingest(ScanAssets, StoreMetrics, ScanTimestamps, {5}, MaxScanReadings))
    \/ (Idle /\ ListSensorReadings(PageRequests))
    \/ NextPage

SpecPage == Init /\ [][NextPageSpec]_vars

StrictlyAscending(rows) ==
    \A i \in 1..(Len(rows) - 1) : KeyLess(rows[i], rows[i + 1])
StrictlyDescending(rows) ==
    \A i \in 1..(Len(rows) - 1) : KeyLess(rows[i + 1], rows[i])

\* Page q resumes page p, whose last row is (ts0, id0): no row of p comes
\* again, q is strictly ascending and lies after every row of p, and no
\* matching row between the last row of p and the last row of q is left out
\* (none after the last row of p at all when q is not full).
Resumes(p, q, store) ==
    LET last == p.rows[Len(p.rows)]
        matching == {row \in Labelled(store) : SatisfiesNonEmpty(row, p.req)}
    IN  /\ Range(q.rows) \cap Range(p.rows) = {}
        /\ StrictlyAscending(q.rows)
        /\ \A x \in Range(p.rows), y \in Range(q.rows) : KeyLess(x, y)
        /\ \A m \in matching :
              (KeyLess(last, m) /\ m \notin Range(q.rows)) =>
                  /\ Len(q.rows) = q.req.limit
                  /\ KeyLess(q.rows[Len(q.rows)], m)

\* C1 as stated: every non-empty page, however obtained, is resumed by the
\* call that takes its last row as the cursor.
C1_AsStated ==
    \A i \in 1..(Len(pages) - 1) :
        pages[i].rows # <<>> => Resumes(pages[i], pages[i + 1], readings)

\* C1 amended: every non-empty page obtained with a cursor is resumed by the
\* call that takes its last row as the cursor.
C1_CursorResumes ==
    \A i \in 1..(Len(pages) - 1) :
        (pages[i].rows # <<>> /\ pages[i].req.after_ts # None)
            => Resumes(pages[i], pages[i + 1], readings)

\* A full cursor page followed by a non-empty page, with two rows sharing a
\* timestamp across the page boundary.
C1_Witness ==
    /\ Len(pages) >= 2
    /\ pages[1].req.after_ts # None
    /\ Len(pages[1].rows) = pages[1].req.limit
    /\ pages[2].rows # <<>>
    /\ pages[1].rows[Len(pages[1].rows)].ts = pages[2].rows[1].ts

\* The first rows of a sorted subset: rows is sorted in the given direction
\* and holds the min(limit, n) rows of S that come first in it.
FirstOf(rows, S, limit, dir) ==
    /\ IF dir = "DESC" THEN StrictlyDescending(rows) ELSE StrictlyAscending(rows)
    /\ Range(rows) \subseteq S
    /\ Len(rows) = IF limit < Cardinality(S) THEN limit ELSE Cardinality(S)
    /\ \A x \in Range(rows), y \in S \ Range(rows) :
          IF dir = "DESC" THEN KeyLess(y, x) ELSE KeyLess(x, y)

-----------------------------------------------------------------------------
(* Specification SpecPoll: forward polling while the ingestion process     *)
(* appends readings between the calls.                                     *)

PollRequests ==
    [ facility_id : {None},
      asset_id : {None},
      metric_name : {None, Some("power_kw")},
      start : {None},
      end : {None},
      after_ts : {Some(10)},
      after_id : {Some(1)},
      limit : 1..MaxLimit ]

NextPoll ==
    \/ Ingest(ScanAssets, StoreMetrics, ScanTimestamps, {5}, MaxScanReadings)
    \/ (Idle /\ ListSensorReadings(PollRequests))
    \/ NextPage

SpecPoll == Init /\ [][NextPoll]_vars

CursorOf(r) == [ts |-> r.after_ts[1], id |-> r.after_id[1]]

NoRowTwice ==
    \A i, j \in 1..Len(pages) :
        i < j => Range(pages[i].rows) \cap Range(pages[j].rows) = {}

\* C10 as stated: once a page of the chain was non-empty, the cursor strictly
\* increases from each call to the next, and no reading is returned by two
\* calls.
C10_AsStated ==
    (pages # <<>> /\ pages[1].req.after_ts # None) =>
        /\ \A i \in 1..(Len(pages) - 1) :
              NonEmptyPages(SubSeq(pages, 1, i)) # {} =>
                  KeyLess(CursorOf(pages[i].req), CursorOf(pages[i + 1].req))
        /\ NoRowTwice

\* C10 amended: the cursor never decreases from a call to the next and
\* strictly increases after every non-empty page (after an empty page the next
\* call repeats the cursor); no reading is returned by two calls.
C10_ForwardPolling ==
    (pages # <<>> /\ pages[1].req.after_ts # None) =>
        /\ \A i \in 1..(Len(pages) - 1) :
              IF pages[i].rows # <<>>
              THEN KeyLess(CursorOf(pages[i].req), CursorOf(pages[i + 1].req))
              ELSE CursorOf(pages[i].req) = CursorOf(pages[i + 1].req)
        /\ NoRowTwice

\* A chain of three calls that each return a row, the last of them a reading
\* ingested after the chain began.
C10_Witness ==
    /\ Len(pages) >= 3
    /\ \A i \in 1..3 : pages[i].rows # <<>>
    /\ \E row \in Range(pages[3].rows) :
          \A x \in Range(pages[1].rows) : row.id > x.id + 1

-----------------------------------------------------------------------------
(* Specification SpecFacility: the facility-scoped operations, over every  *)
(* store of at most MaxDashReadings rows and over the store of the worked  *)
(* example: (asset A, metric X, ts 10, value 5), (A, X, 20, 7),            *)
(* (B, X, 15, 3).                                                          *)

ExampleReadings ==
    { [id |-> 1, facility_id |-> 1, asset_id |-> 1, metric_id |-> 1, ts |-> 10, value |-> 5],
      [id |-> 2, facility_id |-> 1, asset_id |-> 1, metric_id |-> 1, ts |-> 20, value |-> 7],
      [id |-> 3, facility_id |-> 1, asset_id |-> 2, metric_id |-> 1, ts |-> 15, value |-> 3] }

InitFacility ==
    /\ readings \in {{}, ExampleReadings}
    /\ op = "init"
    /\ req = <<>>
    /\ resp = <<>>
    /\ pages = <<>>

FacilityIds == {f.id : f \in Facilities} \cup {UnknownFacility}

FacilityRequests ==
    [ facility_id : {Some(f) : f \in FacilityIds},
      asset_id : {None},
      metric_name : {None},
      start : {None},
      end : {None},
      after_ts : {None},
      after_id : {None},
      limit : {MaxLimit} ]

DashTimestamps == {10, 20}
DashValues == {3, 7}

NextFacility ==
    \/ (Populating /\ Ingest(Assets, Metrics, DashTimestamps, DashValues, MaxDashReadings))
    \/ (Idle /\ GetFacilityDetails(FacilityIds))
    \/ (Idle /\ GetDashboardSummary(FacilityIds, {100}))
    \/ (Idle /\ ListSensorReadings(FacilityRequests))

SpecFacility == InitFacility /\ [][NextFacility]_vars

\* C2: every facility-scoped operation fails with NotFound (404) when the
\* facility_id matches no facility row.
FacilityArg ==
    IF op = "list_sensor_readings" THEN req.facility_id[1] ELSE req.facility_id

C2_AsStated ==
    (op \in {"get_facility_details", "get_dashboard_summary", "list_sensor_readings"}
        /\ FacilityArg \notin {f.id : f \in Facilities})
    => resp.status = 404

Summarised == op = "get_dashboard_summary" /\ resp.status = 200

\* The readings the summary is to rest on: per (asset_id, metric_id) of the
\* facility, the one reading with the greatest (ts, id).
Selected(store, facility_id) ==
    {sr \in store :
        /\ sr.facility_id = facility_id
        /\ \A o \in store :
              (o.facility_id = facility_id /\ o.asset_id = sr.asset_id
                  /\ o.metric_id = sr.metric_id /\ o # sr) => KeyLess(o, sr)}

MetricNameOf(sr) == (CHOOSE m \in Metrics : m.id = sr.metric_id).name

RECURSIVE Total(_)
Total(vs) == IF vs = <<>> THEN 0 ELSE Head(vs) + Total(Tail(vs))

RECURSIVE Listing(_)
Listing(S) ==
    IF S = {} THEN <<>>
    ELSE LET x == CHOOSE y \in S : \A z \in S : y.id <= z.id
         IN  <<x.value>> \o Listing(S \ {x})

\* dm reports sum, avg, min, max, latest_ts and contributing_assets of G.
Reports(dm, G) ==
    LET total == Total(Listing(G))
        sum == DictGet(dm.aggregation_values, "sum")
        avg == DictGet(dm.aggregation_values, "avg")
        min == DictGet(dm.aggregation_values, "min")
        max == DictGet(dm.aggregation_values, "max")
    IN  /\ sum.den = 1 /\ sum.num = total
        /\ avg.den > 0 /\ avg.num * Cardinality(G) = total * avg.den
        /\ min.den = 1 /\ (\E x \in G : x.value = min.num) /\ (\A x \in G : min.num <= x.value)
        /\ max.den = 1 /\ (\E x \in G : x.value = max.num) /\ (\A x \in G : max.num >= x.value)
        /\ (\E x \in G : x.ts = dm.latest_ts) /\ (\A x \in G : dm.latest_ts >= x.ts)
        /\ dm.contributing_assets = Cardinality(G)
        /\ dm.contributing_assets = Cardinality({x.asset_id : x \in G})

\* C5: the summary of an existing facility has one card per metric name among
\* the selected readings, each reporting the statistics of exactly the selected
\* readings of that name; the worked example gives sum 10, avg 5, min 3,
\* max 7, contributing_assets 2, latest_ts 20.
C5_LatestValueAggregation ==
    Summarised =>
        LET sel == Selected(readings, req.facility_id)
            ms == resp.body.metrics
        IN  /\ {ms[i].metric_name : i \in 1..Len(ms)} = {MetricNameOf(sr) : sr \in sel}
            /\ \A i, j \in 1..Len(ms) : ms[i].metric_name = ms[j].metric_name => i = j
            /\ \A i \in 1..Len(ms) :
                  Reports(ms[i], {sr \in sel : MetricNameOf(sr) = ms[i].metric_name})
            /\ (readings = ExampleReadings /\ req.facility_id = 1) =>
                  /\ Len(ms) = 1
                  /\ ms[1].aggregation_values =
                         << <<"sum", [num |-> 10, den |-> 1]>>, <<"avg", [num |-> 5, den |-> 1]>>,
                            <<"min", [num |-> 3, den |-> 1]>>, <<"max", [num |-> 7, den |-> 1]>> >>
                  /\ ms[1].contributing_assets = 2
                  /\ ms[1].latest_ts = 20

\* The summary of the worked example.
C5_Witness ==
    /\ Summarised
    /\ readings = ExampleReadings
    /\ req.facility_id = 1
    /\ resp.body.metrics # <<>>

\* C8: power_kw and flow_l_min default to "sum", every other metric to "avg";
\* aggregation is one of the four keys of aggregation_values and
\* aggregated_value is the value under it.
C8_DefaultAggregation ==
    Summarised =>
        \A i \in 1..Len(resp.body.metrics) :
            LET dm == resp.body.metrics[i] IN
            /\ dm.metric_name \in {"power_kw", "flow_l_min"} => dm.aggregation = "sum"
            /\ dm.metric_name \notin {"power_kw", "flow_l_min"} => dm.aggregation = "avg"
            /\ DictKeys(dm.aggregation_values) = {"sum", "avg", "min", "max"}
            /\ Len(dm.aggregation_values) = 4
            /\ dm.aggregation \in DictKeys(dm.aggregation_values)
            /\ dm.aggregated_value = DictGet(dm.aggregation_values, dm.aggregation)

\* A summary with a flow card, defaulting to sum, and a temperature card,
\* defaulting to avg.
C8_Witness ==
    /\ Summarised
    /\ \E i, j \in 1..Len(resp.body.metrics) :
          LET a == resp.body.metrics[i]
              b == resp.body.metrics[j]
          IN  /\ a.metric_name = "flow_l_min" /\ a.aggregation = "sum"
              /\ b.metric_name = "temperature_c" /\ b.aggregation = "avg"

-----------------------------------------------------------------------------
(* Specification SpecEtag: _build_dashboard_summary_etag on pairs of       *)
(* summaries of at most MaxMetrics cards, their aggregation_values         *)
(* inserted in the order of get_dashboard_summary or in the reverse order. *)

Reverse(seq) == [i \in 1..Len(seq) |-> seq[Len(seq) + 1 - i]]

EtagRows ==
    { [metric_name |-> m.name, unit |-> m.unit, latest_ts |-> 20,
       contributing_assets |-> 2, sum_value |-> Num(st[1]), avg_value |-> Frac(st[1], 2),
       min_value |-> Num(st[2]), max_value |-> Num(st[3])] :
          m \in StoreMetrics, st \in {<<10, 3, 7>>, <<8, 3, 5>>} }

EtagMetrics ==
    {DashboardMetric(row) : row \in EtagRows}
    \cup
    { [DashboardMetric(row) EXCEPT !.aggregation_values = Reverse(@)] : row \in EtagRows }

RECURSIVE SeqsUpTo(_, _)
SeqsUpTo(S, n) ==
    IF n = 0 THEN {<<>>}
    ELSE LET shorter == SeqsUpTo(S, n - 1)
         IN  shorter \cup {Append(q, x) : q \in shorter, x \in S}

EtagSummaries ==
    [ facility_id : {f.id : f \in Facilities},
      generated_at : {100, 200},
      metrics : SeqsUpTo(EtagMetrics, MaxMetrics) ]

\* The first summary of a pair: of facility 1, computed at 100.
EtagFirst == {x \in EtagSummaries : x.facility_id = 1 /\ x.generated_at = 100}

NextEtag == Idle /\ BuildEtags(EtagFirst, EtagSummaries)

SpecEtag == Init /\ [][NextEtag]_vars

Built == op = "_build_dashboard_summary_etag"

\* A dict as the mapping it is.
Mapping(d) == {d[i] : i \in 1..Len(d)}

SameMetric(x, y) ==
    /\ x.metric_name = y.metric_name
    /\ x.unit = y.unit
    /\ x.aggregation = y.aggregation
    /\ Mapping(x.aggregation_values) = Mapping(y.aggregation_values)
    /\ x.latest_ts = y.latest_ts
    /\ x.aggregated_value = y.aggregated_value
    /\ x.contributing_assets = y.contributing_assets

SameContent(a, b) ==
    /\ a.facility_id = b.facility_id
    /\ Len(a.metrics) = Len(b.metrics)
    /\ \A i \in 1..Len(a.metrics) : SameMetric(a.metrics[i], b.metrics[i])

DifferentAggregatedValue(a, b) ==
    \E i \in 1..Len(a.metrics) :
        i <= Len(b.metrics) /\ a.metrics[i].aggregated_value # b.metrics[i].aggregated_value

\* C6: summaries of the same facility_id and the same ordered metric content
\* get the same token, whatever generated_at and the insertion order of
\* aggregation_values; summaries that differ in a metric's aggregated value
\* get different tokens.
C6_ContentFingerprint ==
    Built =>
        /\ SameContent(req[1], req[2]) => resp[1] = resp[2]
        /\ DifferentAggregatedValue(req[1], req[2]) => resp[1] # resp[2]

\* Two summaries of the same content, computed at different times, whose
\* aggregation_values were inserted in different orders.
C6_Witness ==
    /\ Built
    /\ SameContent(req[1], req[2])
    /\ req[1].generated_at # req[2].generated_at
    /\ req[1].metrics # <<>>
    /\ req[1].metrics[1].aggregation_values # req[2].metrics[1].aggregation_values

-----------------------------------------------------------------------------
(* Specification SpecCond: read_dashboard_summary with If-None-Match lists *)
(* of at most MaxEntries entries.                                          *)

NextCond == Idle /\ ReadDashboardSummary(FacilityIds, {100})

SpecCond == InitFacility /\ [][NextCond]_vars

Conditional == op = "read_dashboard_summary" /\ resp.status # 404

IsBlank(s) == \A i \in 1..Len(s) : s[i] \in Whitespace

\* The text between two commas, or between an end of the list and a comma.
IsEntry(h, i, j) ==
    /\ i = 1 \/ h[i - 1] = ","
    /\ j = Len(h) \/ h[j + 1] = ","
    /\ \A k \in i..j : h[k] # ","

\* The entry, blanks around it aside, is *, or the token, or W/ and the token.
EntrySelects(e, token) ==
    \E i \in 1..Len(e), j \in 1..Len(e) :
        /\ i <= j
        /\ IsBlank(SubSeq(e, 1, i - 1)) /\ e[i] \notin Whitespace
        /\ IsBlank(SubSeq(e, j + 1, Len(e))) /\ e[j] \notin Whitespace
        /\ LET core == SubSeq(e, i, j) IN
           \/ core = <<"*">>
           \/ core = token
           \/ /\ Len(core) > 2 /\ core[1] = "W" /\ core[2] = "/"
              /\ \E k \in 3..Len(core) :
                    IsBlank(SubSeq(core, 3, k - 1)) /\ SubSeq(core, k, Len(core)) = token

ListSelects(h, token) ==
    \E i \in 1..Len(h), j \in 1..Len(h) :
        i <= j /\ IsEntry(h, i, j) /\ EntrySelects(SubSeq(h, i, j), token)

CurrentToken ==
    _build_dashboard_summary_etag(
        get_dashboard_summary(readings, req.facility_id, req.now).body)

\* C7: the outcome is notModified (304, no body) when an entry of the list
\* is * or is the current token, a W/ prefix aside, and fresh (200, the
\* summary) otherwise; both carry the current token and
\* "private, must-revalidate".
C7_ConditionalEvaluation ==
    Conditional =>
        LET h == req.if_none_match
            selected == h # None /\ ListSelects(h[1], CurrentToken)
        IN  /\ resp.status = IF selected THEN 304 ELSE 200
            /\ resp.status = 304 => resp.body = <<>>
            /\ resp.status = 200 =>
                  resp.body = get_dashboard_summary(readings, req.facility_id, req.now).body
            /\ resp.headers.etag = CurrentToken
            /\ resp.headers.cache_control = "private, must-revalidate"
            /\ h = Some(CurrentToken) => resp.status = 304
            /\ h = Some(WeakPrefix \o CurrentToken) => resp.status = 304
            /\ h = Some(<<"*">>) => resp.status = 304
            /\ h = Some(OtherEtag) => resp.status = 200
            /\ h = None => resp.status = 200

\* The weak form of the current token, after an unrelated token, selects
\* notModified for a summary that has a card.
C7_Witness ==
    /\ Conditional
    /\ readings = ExampleReadings
    /\ req.facility_id = 1
    /\ req.if_none_match = Some(OtherEtag \o <<",">> \o WeakPrefix \o CurrentToken)
    /\ resp.status = 304

====
